---- MODULE Spec2Model ----
(***************************************************************************)
(* BookmarkSync (src/main.go): three bookmark stores (gtk: plain list,     *)
(* kde: XBEL document, qt: INI key) and SyncFrom, which reads one store    *)
(* and replaces the user places of the two others.                         *)
(*                                                                         *)
(* Strings are sequences of one-character strings, so that formatting and  *)
(* parsing (lines, "target label", ", "-joined paths, percent-escapes) are *)
(* computed and not assumed to invert each other.                          *)
(***************************************************************************)
EXTENDS Integers, Sequences, FiniteSets, TLC

\* ------------------------------------------------------------------ bounds

\* How many SyncFrom calls one behaviour makes.
MaxRuns == 2

\* ----------------------------------------------------------------- strings

Space == {" ", "\t", "\n", "\r"}

HexDigits == {"0", "1", "2", "3", "4", "5", "6", "7", "8", "9",
              "a", "b", "c", "d", "e", "f", "A", "B", "C", "D", "E", "F"}

\* strings.HasPrefix
HasPrefix(s, p) == Len(s) >= Len(p) /\ SubSeq(s, 1, Len(p)) = p

\* strings.TrimPrefix
TrimPrefix(s, p) == IF HasPrefix(s, p) THEN SubSeq(s, Len(p) + 1, Len(s)) ELSE s

RECURSIVE TrimLeft(_)
TrimLeft(s) == IF s # <<>> /\ Head(s) \in Space THEN TrimLeft(Tail(s)) ELSE s

RECURSIVE TrimRight(_)
TrimRight(s) ==
    IF s # <<>> /\ s[Len(s)] \in Space THEN TrimRight(SubSeq(s, 1, Len(s) - 1)) ELSE s

\* strings.TrimSpace
TrimSpace(s) == TrimRight(TrimLeft(s))

\* strings.Index: the first position where sep starts in s, 0 when there is none.
Index(s, sep) ==
    LET hits == {i \in 1..(Len(s) - Len(sep) + 1) : SubSeq(s, i, i + Len(sep) - 1) = sep}
    IN  IF hits = {} THEN 0 ELSE CHOOSE i \in hits : \A j \in hits : i <= j

\* strings.Split(s, sep), sep not empty.
RECURSIVE Split(_, _)
Split(s, sep) ==
    LET i == Index(s, sep)
    IN  IF i = 0 THEN <<s>>
        ELSE <<SubSeq(s, 1, i - 1)>> \o Split(SubSeq(s, i + Len(sep), Len(s)), sep)

\* strings.SplitN(s, sep, 2)
SplitN2(s, sep) ==
    LET i == Index(s, sep)
    IN  IF i = 0 THEN <<s>>
        ELSE <<SubSeq(s, 1, i - 1), SubSeq(s, i + Len(sep), Len(s))>>

\* strings.Join
RECURSIVE Join(_, _)
Join(ss, sep) ==
    IF ss = <<>> THEN <<>>
    ELSE IF Len(ss) = 1 THEN ss[1]
    ELSE ss[1] \o sep \o Join(Tail(ss), sep)

\* The byte a percent-escape %xy stands for. The stores of this model use the
\* escapes of space, comma and percent; any other pair of hex digits decodes to
\* a byte outside the alphabet, written "?".
HexByte(x, y) ==
    IF <<x, y>> = <<"2", "0">> THEN " "
    ELSE IF <<x, y>> \in {<<"2", "C">>, <<"2", "c">>} THEN ","
    ELSE IF <<x, y>> = <<"2", "5">> THEN "%"
    ELSE "?"

\* net/url unescape: ok is FALSE on a "%" that two hex digits do not follow.
\* plus is TRUE for url.QueryUnescape, where "+" decodes to a space.
RECURSIVE Unescape(_, _)
Unescape(s, plus) ==
    IF s = <<>> THEN [ok |-> TRUE, val |-> <<>>]
    ELSE IF Head(s) = "%"
    THEN IF Len(s) >= 3 /\ s[2] \in HexDigits /\ s[3] \in HexDigits
         THEN LET r == Unescape(SubSeq(s, 4, Len(s)), plus)
              IN  [ok |-> r.ok, val |-> <<HexByte(s[2], s[3])>> \o r.val]
         ELSE [ok |-> FALSE, val |-> <<>>]
    ELSE LET r == Unescape(Tail(s), plus)
             c == IF plus /\ Head(s) = "+" THEN " " ELSE Head(s)
         IN  [ok |-> r.ok, val |-> <<c>> \o r.val]

QueryUnescape(s) == Unescape(s, TRUE)

RECURSIVE StripSlashes(_)
StripSlashes(s) ==
    IF s # <<>> /\ s[Len(s)] = "/" THEN StripSlashes(SubSeq(s, 1, Len(s) - 1)) ELSE s

\* filepath.Base: the last element of the path, "." for the empty path and "/"
\* for a path of slashes only.
Base(path) ==
    IF path = <<>> THEN <<".">>
    ELSE LET p == StripSlashes(path)
             slashes == {i \in 1..Len(p) : p[i] = "/"}
             last == IF slashes = {} THEN 0
                     ELSE CHOOSE i \in slashes : \A j \in slashes : j <= i
         IN  IF p = <<>> THEN <<"/">> ELSE SubSeq(p, last + 1, Len(p))

\* url.Parse(target).Path for the shapes a bookmark target takes: scheme://host/path
\* or a path without a scheme. The path is percent-decoded ("+" kept) and the
\* parse fails on a broken escape.
URLPath(target) ==
    LET i == Index(target, <<":", "/", "/">>)
        rest == IF i = 0 THEN target ELSE SubSeq(target, i + 3, Len(target))
        j == Index(rest, <<"/">>)
        raw == IF i = 0 THEN target
               ELSE IF j = 0 THEN <<>> ELSE SubSeq(rest, j, Len(rest))
    IN  Unescape(raw, FALSE)

\* ------------------------------------------------------------------ places

\* type Place
Place(label, target) == [Label |-> label, Target |-> target]

FileScheme == <<"f", "i", "l", "e", ":", "/", "/">>

\* --------------------------------------------------------------------- gtk
\* The bookmarks file: st is "absent" (no such file), "ok", or "unreadable" (it
\* cannot be opened for reading); text is its content.

DropCR(line) ==
    IF line # <<>> /\ line[Len(line)] = "\r" THEN SubSeq(line, 1, Len(line) - 1) ELSE line

\* bufio.Scanner with the default split function: the lines of the text without
\* their line ends; a last line needs no line end.
RECURSIVE ScanLines(_)
ScanLines(text) ==
    IF text = <<>> THEN <<>>
    ELSE LET i == Index(text, <<"\n">>)
         IN  IF i = 0 THEN <<DropCR(text)>>
             ELSE <<DropCR(SubSeq(text, 1, i - 1))>>
                      \o ScanLines(SubSeq(text, i + 1, Len(text)))

\* The label of a line without one: the decoded base name of the target's path.
InferLabel(target) ==
    LET u == URLPath(target)
    IN  IF ~u.ok THEN <<>>
        ELSE LET label == Base(u.val)
                 decoded == QueryUnescape(label)
             IN  IF decoded.ok THEN decoded.val ELSE label

\* One non-blank, trimmed line of the bookmarks file.
GTKLinePlace(line) ==
    LET parts == SplitN2(line, <<" ">>)
    IN  Place(IF Len(parts) > 1 THEN parts[2] ELSE InferLabel(parts[1]), parts[1])

RECURSIVE GTKScan(_)
GTKScan(lines) ==
    IF lines = <<>> THEN <<>>
    ELSE LET line == TrimSpace(Head(lines))
         IN  IF line = <<>> THEN GTKScan(Tail(lines))
             ELSE <<GTKLinePlace(line)>> \o GTKScan(Tail(lines))

\* A variant in which a missing file is an error like any other.
GTKGetPlacesNoAbsence(file) ==
    IF file.st # "ok" THEN [err |-> TRUE, places |-> <<>>]
    ELSE [err |-> FALSE, places |-> GTKScan(ScanLines(file.text))]

\* GTKBackend.GetPlaces
GTKGetPlaces(file) ==
    IF file.st = "absent" THEN [err |-> FALSE, places |-> <<>>]
    ELSE IF file.st = "unreadable" THEN [err |-> TRUE, places |-> <<>>]
    ELSE [err |-> FALSE, places |-> GTKScan(ScanLines(file.text))]

GTKLine(place) ==
    IF place.Label # <<>> THEN place.Target \o <<" ">> \o place.Label \o <<"\n">>
    ELSE place.Target \o <<"\n">>

RECURSIVE GTKText(_)
GTKText(places) ==
    IF places = <<>> THEN <<>> ELSE GTKLine(Head(places)) \o GTKText(Tail(places))

\* The file GTKBackend.Replace leaves once os.Create has truncated it and the
\* lines of the first k places have reached it (an existing file keeps its mode).
GTKWritten(file, places, k) ==
    [st |-> IF file.st = "unreadable" THEN "unreadable" ELSE "ok",
     text |-> GTKText(SubSeq(places, 1, k))]

\* --------------------------------------------------------------------- kde
\* The XBEL file: st as above; entries are the bookmark elements that parse, in
\* document order; wf is FALSE when the document is malformed after them (a
\* truncated or corrupt file: entries is then its well-formed prefix). An entry
\* is [href, title, metadata], a metadata element [owner, isSystemItem, other]:
\* other says that the element holds content type Metadata has no field for (an
\* icon, an ID, the text of isSystemItem).

KDEOwner == "http://www.kde.org"

\* type Bookmark, Info, Metadata: what xml.Decoder keeps of one bookmark element.
DecodeBookmark(e) ==
    [Href |-> e.href, Title |-> e.title,
     Info |-> [Metadata |-> [i \in DOMAIN e.metadata |->
                  [Owner |-> e.metadata[i].owner,
                   IsSystemItem |-> e.metadata[i].isSystemItem]]]]

\* A variant in which a failed decode leaves nothing in the value.
DecodeAllOrNothing(file) ==
    [err |-> ~file.wf,
     Bookmarks |-> IF file.wf
                   THEN [i \in DOMAIN file.entries |-> DecodeBookmark(file.entries[i])]
                   ELSE <<>>]

\* xml.Decoder.Decode into an XBEL: the bookmarks decoded before the error, if
\* any, stay in the value.
Decode(file) ==
    [err |-> ~file.wf,
     Bookmarks |-> [i \in DOMAIN file.entries |-> DecodeBookmark(file.entries[i])]]

\* xml.Encoder.Encode of one Bookmark.
EncodeBookmark(b) ==
    [href |-> b.Href, title |-> b.Title,
     metadata |-> [i \in DOMAIN b.Info.Metadata |->
                  [owner |-> b.Info.Metadata[i].Owner,
                   isSystemItem |-> b.Info.Metadata[i].IsSystemItem,
                   other |-> FALSE]]]

\* The isSystem loop of GetPlaces and Replace.
IsSystem(b) == \E i \in DOMAIN b.Info.Metadata : b.Info.Metadata[i].IsSystemItem

NotSystem(b) == ~IsSystem(b)

\* KDEBackend.GetPlaces
KDEGetPlaces(file) ==
    IF file.st = "absent" THEN [err |-> FALSE, places |-> <<>>]
    ELSE IF file.st = "unreadable" THEN [err |-> TRUE, places |-> <<>>]
    ELSE LET xbel == Decode(file)
             user == SelectSeq(xbel.Bookmarks, NotSystem)
         IN  IF xbel.err THEN [err |-> TRUE, places |-> <<>>]
             ELSE [err |-> FALSE,
                   places |-> [i \in DOMAIN user |-> Place(user[i].Title, user[i].Href)]]

\* The Bookmark Replace builds for one place.
NewBookmark(place) ==
    [Href |-> place.Target, Title |-> place.Label,
     Info |-> [Metadata |-> <<[Owner |-> KDEOwner, IsSystemItem |-> FALSE]>>]]

\* A variant that keeps every existing bookmark.
KeepsEverything(existing) == existing

\* The existing bookmarks Replace keeps.
KeptBookmarks(existing) == SelectSeq(existing, IsSystem)

\* newBookmarks of KDEBackend.Replace: the pre-read ignores every error.
NewBookmarks(file, places) ==
    LET existing == IF file.st = "ok" THEN Decode(file).Bookmarks ELSE <<>>
    IN  KeptBookmarks(existing) \o [i \in DOMAIN places |-> NewBookmark(places[i])]

\* The file KDEBackend.Replace leaves once os.Create has truncated it and the
\* first k elements have reached it; complete says that Encode finished.
KDEWritten(file, bookmarks, k, complete) ==
    [st |-> IF file.st = "unreadable" THEN "unreadable" ELSE "ok",
     wf |-> complete,
     entries |-> [i \in 1..k |-> EncodeBookmark(bookmarks[i])]]

\* ---------------------------------------------------------------------- qt
\* QtProject.conf: st as above ("unreadable": ini.Load fails, the file cannot be
\* opened or parsed); shortcuts is the value of FileDialog/shortcuts, rest says
\* that the file holds other keys or sections.

CommaSpace == <<",", " ">>

RECURSIVE QtScan(_)
QtScan(shortcuts) ==
    IF shortcuts = <<>> THEN <<>>
    ELSE LET shortcut == TrimSpace(Head(shortcuts))
         IN  IF shortcut = <<>> THEN QtScan(Tail(shortcuts))
             ELSE <<Place(Base(shortcut), FileScheme \o shortcut)>>
                      \o QtScan(Tail(shortcuts))

\* QtBackend.GetPlaces
QtGetPlaces(file) ==
    IF file.st = "absent" THEN [err |-> FALSE, places |-> <<>>]
    ELSE IF file.st = "unreadable" THEN [err |-> TRUE, places |-> <<>>]
    ELSE IF file.shortcuts = <<>> THEN [err |-> FALSE, places |-> <<>>]
    ELSE [err |-> FALSE, places |-> QtScan(Split(file.shortcuts, CommaSpace))]

\* The path Replace stores for one file:// place.
QtPath(place) ==
    LET path == TrimPrefix(place.Target, FileScheme)
        decoded == QueryUnescape(path)
    IN  IF decoded.ok THEN decoded.val ELSE path

\* A variant without the scheme filter.
QtKeepsAll(place) == TRUE

\* Whether Replace keeps the place.
QtKeeps(place) == HasPrefix(place.Target, FileScheme)

\* shortcuts of QtBackend.Replace
RECURSIVE QtShortcuts(_)
QtShortcuts(places) ==
    IF places = <<>> THEN <<>>
    ELSE IF QtKeeps(Head(places))
    THEN <<QtPath(Head(places))>> \o QtShortcuts(Tail(places))
    ELSE QtShortcuts(Tail(places))

\* The file cfg.SaveTo writes: the loaded (or empty) configuration with the
\* shortcuts key set.
QtSaved(file, places) ==
    [st |-> "ok",
     shortcuts |-> Join(QtShortcuts(places), CommaSpace),
     rest |-> IF file.st = "absent" THEN FALSE ELSE file.rest]

\* ------------------------------------------------------------ orchestrator

\* The keys of bs.backends.
Names == {"gtk", "kde", "qt"}

\* The names SyncFrom is called with: the backends and a name that is none.
CallNames == Names \cup {"xfce"}

VARIABLES
    store,        \* the three files: [gtk |-> ..., kde |-> ..., qt |-> ...]
    pc,           \* "idle", "loop" (inside SyncFrom's range loop) or "done" (returned)
    backendName,  \* the argument of the current (or last) call
    places,       \* what the source's GetPlaces returned
    remaining,    \* the backends the range loop has yet to visit
    order,        \* the backends whose Replace this call has called, in call order
    outcome,      \* per backend, how its Replace ended in this call: "none" (not
                  \* called), "ok", "err" (it returned an error) or "partial" (it
                  \* returned nil and the write was incomplete)
    result,       \* what the call returned: "none" (not yet), "nil" or "err"
    pre,          \* the three files as they were when the call began
    runs,         \* the calls made so far
    prevName,     \* the argument of the call before, "none" unless it returned nil
    prevOrder,    \* that call's order
    prevClean     \* whether every Replace of that call wrote completely

vars == <<store, pc, backendName, places, remaining, order, outcome, result, pre,
          runs, prevName, prevOrder, prevClean>>

\* sourceBackend.GetPlaces() / backend.Replace: the dispatch on the map's value.
GetPlaces(name, file) ==
    CASE name = "gtk" -> GTKGetPlaces(file)
      [] name = "kde" -> KDEGetPlaces(file)
      [] name = "qt" -> QtGetPlaces(file)

\* A variant that drops the read's error and syncs what the read returned.
AfterReadUnchecked(name, r) ==
    IF name \notin Names
    THEN [pc |-> "done", result |-> "err", places |-> <<>>, remaining |-> {}]
    ELSE [pc |-> "loop", result |-> "none", places |-> r.places,
          remaining |-> Names \ {name}]

\* SyncFrom up to its loop: the lookup and the source's read. An unknown name and
\* a failed read return the error at once.
AfterRead(name, r) ==
    IF name \notin Names \/ r.err
    THEN [pc |-> "done", result |-> "err", places |-> <<>>, remaining |-> {}]
    ELSE [pc |-> "loop", result |-> "none", places |-> r.places,
          remaining |-> Names \ {name}]

\* A variant in which the first failed Replace ends the loop.
StopsOnError(err, rest) == IF err THEN {} ELSE rest

\* The loop after a Replace that returned err: the error is logged and the loop
\* goes on with the backends left.
Continues(err, rest) == rest

\* No Replace of the current call failed or wrote incompletely.
Clean == \A d \in Names : outcome[d] \in {"none", "ok"}

\* ----------------------------------------------------------------- initial

TargetA == FileScheme \o <<"/", "a">>

TargetEscaped == FileScheme \o <<"/", "a", "%", "2", "0", "b">>

TargetSpaced == FileScheme \o <<"/", "a", " ", "b">>

TargetRemote == <<"s", "f", "t", "p", ":", "/", "/", "h", "/", "x">>

\* The escaped form of file:///c, d
TargetComma == FileScheme \o <<"/", "c", "%", "2", "C", "%", "2", "0", "d">>

\* A system entry as the desktop writes it: an icon under a foreign owner, and
\* an ID and the marker's text beside the marker.
Trash ==
    [href |-> <<"t", "r", "a", "s", "h", ":", "/">>, title |-> <<"T">>,
     metadata |-> <<[owner |-> "http://freedesktop.org", isSystemItem |-> FALSE,
                     other |-> TRUE],
                    [owner |-> KDEOwner, isSystemItem |-> TRUE, other |-> TRUE]>>]

\* A system entry that holds nothing but the marker.
Home ==
    [href |-> FileScheme \o <<"/", "h">>, title |-> <<"H">>,
     metadata |-> <<[owner |-> KDEOwner, isSystemItem |-> TRUE, other |-> FALSE]>>]

UserEntry(title, href) ==
    [href |-> href, title |-> title,
     metadata |-> <<[owner |-> KDEOwner, isSystemItem |-> FALSE, other |-> FALSE]>>]

GTKFiles ==
    {[st |-> "absent", text |-> <<>>],
     [st |-> "unreadable", text |-> <<>>],
     [st |-> "ok", text |-> TargetA \o <<" ", "A", "\n">>],
     [st |-> "ok", text |-> TargetEscaped \o <<"\n">> \o TargetRemote \o <<" ", "X", "\n">>],
     [st |-> "ok", text |-> TargetComma \o <<" ", "D", "\n">>]}

KDEFiles ==
    {[st |-> "absent", wf |-> TRUE, entries |-> <<>>],
     [st |-> "unreadable", wf |-> TRUE, entries |-> <<>>],
     [st |-> "ok", wf |-> TRUE, entries |-> <<Trash, UserEntry(<<"A">>, TargetA)>>],
     [st |-> "ok", wf |-> TRUE,
      entries |-> <<UserEntry(<<"a", " ", "b">>, TargetSpaced), Home>>],
     [st |-> "ok", wf |-> FALSE, entries |-> <<Home>>]}

QtFiles ==
    {[st |-> "absent", shortcuts |-> <<>>, rest |-> FALSE],
     [st |-> "unreadable", shortcuts |-> <<>>, rest |-> FALSE],
     [st |-> "ok", shortcuts |-> <<"/", "a", " ", "b">>, rest |-> TRUE],
     [st |-> "ok", shortcuts |-> <<"/", "a", ",", " ", "/", "b">>, rest |-> FALSE]}

Init ==
    /\ store \in {[gtk |-> g, kde |-> k, qt |-> q] :
                     g \in GTKFiles, k \in KDEFiles, q \in QtFiles}
    /\ pre = store
    /\ pc = "idle"
    /\ backendName = "none"
    /\ places = <<>>
    /\ remaining = {}
    /\ order = <<>>
    /\ outcome = [d \in Names |-> "none"]
    /\ result = "none"
    /\ runs = 0
    /\ prevName = "none"
    /\ prevOrder = <<>>
    /\ prevClean = FALSE

\* ----------------------------------------------------------------- actions

\* BookmarkSync.SyncFrom(name), to the start of its loop or to its error return.
SyncFromCall(name) ==
    /\ pc \in {"idle", "done"}
    /\ runs < MaxRuns
    /\ LET r == IF name \in Names THEN GetPlaces(name, store[name])
                ELSE [err |-> TRUE, places |-> <<>>]
           a == AfterRead(name, r)
           returned == pc = "done" /\ result = "nil"
       IN  /\ pc' = a.pc
           /\ result' = a.result
           /\ places' = a.places
           /\ remaining' = a.remaining
           /\ prevName' = IF returned THEN backendName ELSE "none"
           /\ prevOrder' = IF returned THEN order ELSE <<>>
           /\ prevClean' = (returned /\ Clean)
    /\ backendName' = name
    /\ order' = <<>>
    /\ outcome' = [d \in Names |-> "none"]
    /\ pre' = store
    /\ runs' = runs + 1
    /\ UNCHANGED store

\* One iteration of the range loop: backend d's Replace left `file` and ended `out`.
Replaced(d, file, out) ==
    /\ store' = [store EXCEPT ![d] = file]
    /\ outcome' = [outcome EXCEPT ![d] = out]
    /\ order' = Append(order, d)
    /\ remaining' = Continues(out = "err", remaining \ {d})
    /\ UNCHANGED <<pc, backendName, places, result, pre, runs, prevName, prevOrder,
                   prevClean>>

\* The iteration that calls GTKBackend.Replace(places). MkdirAll or os.Create
\* fails and the file is untouched; or the file is truncated and the lines of the
\* first k places reach it: Fprintf's errors are dropped and Replace returns nil.
GTKReplace ==
    /\ pc = "loop"
    /\ "gtk" \in remaining
    /\ \/ Replaced("gtk", store.gtk, "err")
       \/ \E k \in 0..Len(places) :
              Replaced("gtk", GTKWritten(store.gtk, places, k),
                       IF k = Len(places) THEN "ok" ELSE "partial")

\* The iteration that calls KDEBackend.Replace(places). MkdirAll or os.Create
\* fails and the file is untouched; or Encode writes the document; or the file is
\* truncated and Encode fails after k elements, which Replace returns.
KDEReplace ==
    /\ pc = "loop"
    /\ "kde" \in remaining
    /\ LET new == NewBookmarks(store.kde, places)
       IN  \/ Replaced("kde", store.kde, "err")
           \/ Replaced("kde", KDEWritten(store.kde, new, Len(new), TRUE), "ok")
           \/ \E k \in 0..Len(new) :
                  Replaced("kde", KDEWritten(store.kde, new, k, FALSE), "err")

\* The iteration that calls QtBackend.Replace(places). ini.Load of an existing
\* file fails; or SaveTo writes the file; or MkdirAll or SaveTo fails, before the
\* file is touched or after it is truncated.
QtReplace ==
    /\ pc = "loop"
    /\ "qt" \in remaining
    /\ \/ /\ store.qt.st = "unreadable"
          /\ Replaced("qt", store.qt, "err")
       \/ /\ store.qt.st # "unreadable"
          /\ Replaced("qt", QtSaved(store.qt, places), "ok")
       \/ /\ store.qt.st # "unreadable"
          /\ Replaced("qt", store.qt, "err")
       \/ /\ store.qt.st # "unreadable"
          /\ Replaced("qt", [st |-> "ok", shortcuts |-> <<>>, rest |-> FALSE], "err")

\* The loop ends and SyncFrom returns nil.
SyncFromReturn ==
    /\ pc = "loop"
    /\ remaining = {}
    /\ pc' = "done"
    /\ result' = "nil"
    /\ UNCHANGED <<store, backendName, places, remaining, order, outcome, pre, runs,
                   prevName, prevOrder, prevClean>>

Next ==
    \/ \E name \in CallNames : SyncFromCall(name)
    \/ GTKReplace
    \/ KDEReplace
    \/ QtReplace
    \/ SyncFromReturn

Spec == Init /\ [][Next]_vars

\* ------------------------------------------------------------------ claims

\* The call's source read, as it was when the call began.
SourceRead ==
    IF backendName \in Names THEN GetPlaces(backendName, pre[backendName])
    ELSE [err |-> TRUE, places |-> <<>>]

\* A bookmark element of the document carries the system marker.
EntryIsSystem(e) == \E i \in DOMAIN e.metadata : e.metadata[i].isSystemItem

\* The elements from position n + 1 on are one non-system element per place, in
\* the order of the places.
UserEntriesAre(entries, n, ps) ==
    /\ Len(entries) = n + Len(ps)
    /\ \A i \in 1..Len(ps) :
           /\ entries[n + i].href = ps[i].Target
           /\ entries[n + i].title = ps[i].Label
           /\ ~EntryIsSystem(entries[n + i])

\* C1: an XML-Dialect Replace(places) on a readable document leaves exactly the
\* system entries it held, unmodified and in their order, followed by one new
\* non-system entry per place.
C1_SystemEntriesUnmodified ==
    (outcome.kde = "ok" /\ pre.kde.st = "ok" /\ pre.kde.wf) =>
        LET sys == SelectSeq(pre.kde.entries, EntryIsSystem)
        IN  /\ Len(store.kde.entries) >= Len(sys)
            /\ SubSeq(store.kde.entries, 1, Len(sys)) = sys
            /\ UserEntriesAre(store.kde.entries, Len(sys), places)

\* Backend d's store holds the list of the current call.
Persisted(d) ==
    CASE d = "gtk" -> store.gtk.text = GTKText(places)
      [] d = "kde" ->
            /\ store.kde.wf
            /\ LET user == SelectSeq(store.kde.entries, LAMBDA e : ~EntryIsSystem(e))
               IN  UserEntriesAre(user, 0, places)
      [] d = "qt" -> store.qt.shortcuts = Join(QtShortcuts(places), CommaSpace)

\* C2: when the name is known and the source's read succeeds, SyncFrom returns
\* nil, Replace has been called on each of the two other backends whichever of
\* them failed, and each one whose write succeeded holds the source's list.
C2_FanOutSurvivesFailure ==
    (pc = "done" /\ ~SourceRead.err) =>
        /\ result = "nil"
        /\ places = SourceRead.places
        /\ \A d \in Names \ {backendName} :
               /\ outcome[d] # "none"
               /\ outcome[d] = "ok" => Persisted(d)

\* C2's case: the first Replace returned an error, the second was still called
\* and wrote, and SyncFrom returned nil.
C2_Witness ==
    /\ pc = "done"
    /\ result = "nil"
    /\ Len(order) = 2
    /\ outcome[order[1]] = "err"
    /\ outcome[order[2]] = "ok"
    /\ places # <<>>

\* C3: SyncFrom returns an error when the name is no backend or the source's
\* read fails, and whenever it returns an error no Replace has been called and
\* the three stores are as they were before the call.
C3_ErrorMeansUntouched ==
    /\ (pc = "done" /\ SourceRead.err) => result = "err"
    /\ (pc = "done" /\ result = "err") =>
           /\ order = <<>>
           /\ \A d \in Names : outcome[d] = "none"
           /\ store = pre

\* C3's case: the read of a registered source failed while another store held
\* places a sync would have replaced.
C3_Witness ==
    /\ pc = "done"
    /\ result = "err"
    /\ backendName \in Names
    /\ store.gtk.st = "ok"
    /\ store.gtk.text # <<>>
    /\ backendName # "gtk"

\* Every place has a target and an explicit label.
Labelled(ps) == \A i \in DOMAIN ps : ps[i].Target # <<>> /\ ps[i].Label # <<>>

\* C4: for places with non-empty targets and explicit labels, the Plain-List
\* Replace(places) followed by Read() returns places.
C4_GTKRoundTrip ==
    (outcome.gtk = "ok" /\ store.gtk.st = "ok" /\ Labelled(places)) =>
        GTKGetPlaces(store.gtk) = [err |-> FALSE, places |-> places]

IsFileTarget(p) == HasPrefix(p.Target, FileScheme)

\* The targets of the places a read returned.
Targets(ps) == [i \in DOMAIN ps |-> ps[i].Target]

\* C5 as stated: after the INI-Key Replace(places) the shortcuts key holds the
\* scheme-stripped paths of the file:// places, in order, and the following Read
\* returns one place per file:// place with the same target.
C5_QtKeepsFileTargets ==
    outcome.qt = "ok" =>
        LET kept == SelectSeq(places, IsFileTarget)
            paths == [i \in DOMAIN kept |-> TrimPrefix(kept[i].Target, FileScheme)]
            read == QtGetPlaces(store.qt)
        IN  /\ store.qt.shortcuts = Join(paths, CommaSpace)
            /\ ~read.err
            /\ Targets(read.places) = Targets(kept)

\* What the shortcuts key holds for a stripped path: its percent-decoded form,
\* or the path as it is when it does not decode.
DecodedPath(path) ==
    LET decoded == QueryUnescape(path) IN IF decoded.ok THEN decoded.val ELSE path

\* A path that one element of the ", "-separated list gives back.
Separable(path) ==
    /\ path # <<>>
    /\ TrimSpace(path) = path
    /\ Index(path, CommaSpace) = 0

\* C5, amended: the shortcuts key holds the percent-decoded scheme-stripped paths
\* of the file:// places, ", "-joined in order, and nothing of any other place;
\* when each such path is non-empty, has no blank at either end and holds no
\* ", ", the following Read returns one place per file:// place, in order, with
\* target "file://" followed by that decoded path.
C5_QtKeepsDecodedPaths ==
    outcome.qt = "ok" =>
        LET kept == SelectSeq(places, IsFileTarget)
            paths == [i \in DOMAIN kept |->
                         DecodedPath(TrimPrefix(kept[i].Target, FileScheme))]
            read == QtGetPlaces(store.qt)
        IN  /\ store.qt.shortcuts = Join(paths, CommaSpace)
            /\ (\A i \in DOMAIN paths : Separable(paths[i])) =>
                   /\ ~read.err
                   /\ Targets(read.places) = [i \in DOMAIN paths |-> FileScheme \o paths[i]]

\* C5's case: Replace wrote a list that holds a remote place and a file:// place
\* whose path is percent-escaped.
C5_Witness ==
    /\ outcome.qt = "ok"
    /\ \E i \in DOMAIN places : ~IsFileTarget(places[i])
    /\ \E i \in DOMAIN places :
           /\ IsFileTarget(places[i])
           /\ DecodedPath(TrimPrefix(places[i].Target, FileScheme))
                  # TrimPrefix(places[i].Target, FileScheme)
    /\ Len(QtGetPlaces(store.qt).places) = 1

\* The complete content backend d's Replace(places) is to leave.
Intended(d) ==
    CASE d = "gtk" -> GTKWritten(pre.gtk, places, Len(places))
      [] d = "kde" ->
            LET new == NewBookmarks(pre.kde, places)
            IN  KDEWritten(pre.kde, new, Len(new), TRUE)
      [] d = "qt" -> QtSaved(pre.qt, places)

\* C6: after a Replace, failed or not, the store holds its complete content of
\* before the call or the complete intended content, and a Replace that returned
\* nil left the intended content.
C6_ReplaceAllOrNothing ==
    \A d \in Names :
        outcome[d] # "none" =>
            /\ store[d] \in {pre[d], Intended(d)}
            /\ outcome[d] \in {"ok", "partial"} => store[d] = Intended(d)

\* C7: a read of a store whose file does not exist returns the empty list and no
\* error: SyncFrom from an absent source returns nil, and every destination whose
\* write succeeded holds the empty list.
C7_AbsentIsEmpty ==
    /\ \A d \in Names :
           store[d].st = "absent" => GetPlaces(d, store[d]) = [err |-> FALSE, places |-> <<>>]
    /\ (pc # "idle" /\ backendName \in Names /\ pre[backendName].st = "absent") =>
           /\ result # "err"
           /\ places = <<>>
           /\ pc = "done" => result = "nil"
           /\ outcome.gtk = "ok" => store.gtk.text = <<>>
           /\ outcome.qt = "ok" => store.qt.shortcuts = <<>>
           /\ outcome.kde = "ok" =>
                  \A i \in DOMAIN store.kde.entries : EntryIsSystem(store.kde.entries[i])

\* C7's case: a sync from an absent source returned nil and emptied a store that
\* held places.
C7_Witness ==
    /\ pc = "done"
    /\ result = "nil"
    /\ backendName \in Names
    /\ pre[backendName].st = "absent"
    /\ \E d \in {"gtk", "qt"} :
           /\ outcome[d] = "ok"
           /\ GetPlaces(d, pre[d]).places # <<>>
           /\ GetPlaces(d, store[d]).places = <<>>

\* C8: two calls of SyncFrom with the same source call Replace on the other
\* backends in the same order.
C8_SameOrderEveryRun ==
    (pc = "done" /\ result = "nil" /\ prevName = backendName) => order = prevOrder

\* The existing document cannot be read: it cannot be opened, or it is malformed.
PreReadFails == pre.kde.st = "unreadable" \/ (pre.kde.st = "ok" /\ ~pre.kde.wf)

Mapped(e) ==
    [href |-> e.href, title |-> e.title,
     metadata |-> [i \in DOMAIN e.metadata |->
                      [owner |-> e.metadata[i].owner,
                       isSystemItem |-> e.metadata[i].isSystemItem,
                       other |-> FALSE]]]

C10_SyncFromIdempotent ==
    (pc = "done" /\ result = "nil" /\ Clean /\ prevName = backendName /\ prevClean) =>
        store = pre

\* C10's case: the second of two complete syncs of a non-empty list into a
\* document that holds system entries and into the two other formats.
C10_Witness ==
    /\ pc = "done"
    /\ result = "nil"
    /\ Clean
    /\ prevName = backendName
    /\ prevClean
    /\ places # <<>>
    /\ store.kde.st = "ok"
    /\ \E i \in DOMAIN store.kde.entries : EntryIsSystem(store.kde.entries[i])
    /\ Len(store.kde.entries) > 1

====
